---- MODULE Spec2Model ----
(***************************************************************************)
(* Model of the useAPI composable of src/app/composables/useApi.ts: an     *)
(* argument-keyed cache in front of an asynchronous request, with the      *)
(* shared isLoading / error refs, the revision ref triggerRef and the      *)
(* three event hooks.                                                      *)
(*                                                                         *)
(* JavaScript values are records [t, v, fetchedAt]:                        *)
(*   t = "num"    the number v                                             *)
(*   t = "null"   null                                                     *)
(*   t = "undef"  undefined                                                *)
(*   t = "obj"    the object {id: v}                                       *)
(*   t = "arr"    the array [v]                                            *)
(*   t = "idx"    the object {0: v} (what spreading the array [v] gives)   *)
(*   t = "empty"  the object {} (what spreading a primitive gives)         *)
(* fetchedAt is the object's fetchedAt property (a time in milliseconds),  *)
(* or NoDate when the value has no such property.                          *)
(***************************************************************************)
EXTENDS Integers, Sequences, FiniteSets, TLC

\* ------------------------------------------------------------------ bounds
MaxRequests == 2
MaxTicks == 2
\* Number of reactive refs created with getRef.
MaxRefs == 1

\* --------------------------------------------------------------- constants
MsPerSecond == 1000
TickMs == MsPerSecond \div 2

NoDate == 0 - 1
NoTime == 0 - 1
NoError == "null"

\* -------------------------------------------------------------- JS values
Num(n) == [t |-> "num", v |-> n, fetchedAt |-> NoDate]
Obj(n) == [t |-> "obj", v |-> n, fetchedAt |-> NoDate]
Arr(n) == [t |-> "arr", v |-> n, fetchedAt |-> NoDate]
Null == [t |-> "null", v |-> 0, fetchedAt |-> NoDate]
Undefined == [t |-> "undef", v |-> 0, fetchedAt |-> NoDate]
\* An object that refers to itself: JSON.stringify throws on it.
Cyclic == [t |-> "cyclic", v |-> 0, fetchedAt |-> NoDate]

\* JavaScript truthiness of a value (`data && ...`, `if (cached)`).
Truthy(x) ==
  CASE x.t = "num" -> x.v # 0
    [] x.t = "null" -> FALSE
    [] x.t = "undef" -> FALSE
    [] OTHER -> TRUE

\* Object spread `{ ...data }`: own enumerable properties of data.
Spread(x) ==
  CASE x.t = "obj" -> x
    [] x.t = "idx" -> x
    [] x.t = "empty" -> x
    [] x.t = "arr" -> [t |-> "idx", v |-> x.v, fetchedAt |-> NoDate]
    [] OTHER -> [t |-> "empty", v |-> 0, fetchedAt |-> NoDate]

\* ------------------------------------------------- inputs (small domains)
\* Argument lists the callers pass.
ArgLists == { <<Num(1)>>, <<Null>>, <<Undefined>> }
\* Argument lists JSON.stringify cannot serialise.
Unserializable == { <<Cyclic>> }
\* Values a caller passes to getGroupByArg as arg.
ArgValues == { Num(1), Null, Undefined }
\* Raw responses the wrapped request can resolve with: a falsy primitive
\* and an object.
Results == { Num(0), Obj(1) }
\* The TypeError JSON.stringify throws on a cyclic structure.
SerializationError == "TypeError"
\* Raw values the wrapped request can reject with.
Errors == { "e1", "e2" }
\* options.cacheTime: NoTime stands for an absent option.
CacheTimes == { NoTime, 0, 1 }
\* The options objects the engine is constructed with: adapter and
\* errorAdapter are TRUE when the option is given.
OptionSets ==
  { [cacheTime |-> c, adapter |-> a, errorAdapter |-> a] : c \in CacheTimes, a \in BOOLEAN }

VARIABLES
  options,        \* the options the engine was constructed with
  isLoading,      \* isLoading.value
  error,          \* error.value
  triggerRef,     \* triggerRef.value
  cache,          \* cache.value: the Map, as the sequence of its entries in insertion order
  now,            \* Date.now(), in milliseconds
  pending,        \* the execute calls suspended at `await request(...)`, oldest first
  reqCount,       \* number of invocations of the wrapped request so far
  newestInFlight, \* history: TRUE iff the call that entered the request cycle last is still suspended
  last,           \* history: what the last step did (see Step)
  writes,         \* history: number of saveToCache calls made by successful executions
  refs            \* the refs getRef created: their args, and whether their watcher is due to re-run

opts == <<options>>
vars == <<options, isLoading, error, triggerRef,
          cache, now, pending, reqCount, newestInFlight, last, writes, refs>>

\* -------------------------------------------------------- pure functions
\* JSON text of one array element: undefined (and NaN) become null.
JsonElem(x) ==
  CASE x.t = "num" -> ToString(x.v)
    [] OTHER -> "null"

\* getCacheKey: JSON.stringify(args), kept as the sequence of the element texts.
getCacheKey(args) == [i \in 1..Len(args) |-> JsonElem(args[i])]

\* getCacheKey(args) throws instead of returning a key.
getCacheKeyThrows(args) == \E i \in 1..Len(args) : args[i].t = "cyclic"

\* Map.prototype.get / has / set / delete / clear on the entry sequence.
MapIndex(m, key) ==
  IF \E i \in 1..Len(m) : m[i].key = key
  THEN CHOOSE i \in 1..Len(m) : m[i].key = key
  ELSE 0

MapHas(m, key) == MapIndex(m, key) # 0

MapGet(m, key) == IF MapHas(m, key) THEN m[MapIndex(m, key)].value ELSE Undefined

MapSet(m, key, value) ==
  IF MapHas(m, key)
  THEN [m EXCEPT ![MapIndex(m, key)] = [key |-> key, value |-> value]]
  ELSE Append(m, [key |-> key, value |-> value])

\* Mutant: delete drops every entry.
MapDelete_all(m, key) == <<>>

MapDelete(m, key) == SelectSeq(m, LAMBDA e : e.key # key)

MapClear(m) == <<>>

\* isCacheValid, given options.cacheTime and Date.now().
isCacheValid(data, cacheTime, t) ==
  IF data.fetchedAt = NoDate \/ cacheTime = NoTime \/ cacheTime = 0
  THEN TRUE
  ELSE t < data.fetchedAt + cacheTime * MsPerSecond

\* getCachedData: the entry, or null.
getCachedData(m, key, cacheTime, t) ==
  LET data == MapGet(m, key)
  IN IF Truthy(data) /\ isCacheValid(data, cacheTime, t) THEN data ELSE Null

\* The value saveToCache stores.
CachedValue(data, cacheTime, t) ==
  IF cacheTime # NoTime /\ cacheTime # 0
  THEN [Spread(data) EXCEPT !.fetchedAt = t]
  ELSE data

saveToCache(m, key, data, cacheTime, t) == MapSet(m, key, CachedValue(data, cacheTime, t))

\* JSON.parse of one element text of a key.
JsonParseElem(text) ==
  IF text = "null" THEN Null ELSE Num(CHOOSE n \in 0..9 : ToString(n) = text)

\* JSON.parse(key): the argument list read back from the key.
JsonParse(key) == [i \in 1..Len(key) |-> JsonParseElem(key[i])]

\* parsedArgs[index] (index counts from 0; undefined past the end).
ElementAt(parsedArgs, index) ==
  IF index + 1 \in 1..Len(parsedArgs) THEN parsedArgs[index + 1] ELSE Undefined

\* JSON.stringify of a single value: undefined has no JSON text, the result
\* is the value undefined (here "undefined", which is no JSON text).
JsonText(x) ==
  CASE x.t = "num" -> ToString(x.v)
    [] x.t = "null" -> "null"
    [] x.t = "undef" -> "undefined"

\* getGroupByArg called without an index.
NoIndex == 0 - 1

\* Mutant: the group holds only the entries execute would still serve.
getGroupByArg_validOnly(m, index, arg) ==
  LET matches(e) ==
        /\ isCacheValid(e.value, options.cacheTime, now)
        /\ \/ index = NoIndex
           \/ JsonText(ElementAt(JsonParse(e.key), index)) = JsonText(arg)
      kept == SelectSeq(m, matches)
  IN [i \in 1..Len(kept) |-> kept[i].value]

\* The value of the computed ref getGroupByArg(index, arg) returns, for the
\* cache table m: the values of the entries whose key matches, in Map order.
getGroupByArg(m, index, arg) ==
  LET matches(e) ==
        \/ index = NoIndex
        \/ JsonText(ElementAt(JsonParse(e.key), index)) = JsonText(arg)
      kept == SelectSeq(m, matches)
  IN [i \in 1..Len(kept) |-> kept[i].value]

\* The adapter the caller configured (when it did): a non-identity function.
Adapter(r) ==
  CASE r.t = "num" -> Obj(r.v)
    [] r.t = "obj" -> Num(r.v)
    [] OTHER -> Arr(r.v + 1)

adaptResponse(r, hasAdapter) == IF hasAdapter THEN Adapter(r) ELSE r

\* The error adapter the caller configured (when it did).
ErrorAdapter(e) == IF e = "e1" THEN "adapted_e1" ELSE "adapted_e2"

\* Mutant: the error adapter is never applied.
adaptError_unadapted(e, hasAdapter) == e

adaptError(e, hasAdapter) == IF hasAdapter THEN ErrorAdapter(e) ELSE e

\* --------------------------------------------------------------- records
NoValue == Undefined

\* One hook notification, with the state its handlers observe.
Event(hook, data, err, loading, rev, m) ==
  [hook |-> hook, data |-> data, err |-> err,
   isLoading |-> loading, triggerRef |-> rev, cache |-> m]

\* What one step did: the operation, its arguments, how the call ended
\* ("hit", "miss" = suspended at the request, "resolved", "rejected", or
\* "threw" = failed before the request cycle, or
\* "none"), what the request produced, what the caller got, the hook
\* notifications of the step in order, and the error ref and the size of
\* the cache before the step; cleared tells, for the resumption of a
\* suspended call, whether clear or clearOne of its key ran while it was
\* suspended.
Step(op, args, ignoreCache, outcome, raw, rawErr, ret, err, notified) ==
  [op |-> op, args |-> args, ignoreCache |-> ignoreCache, outcome |-> outcome,
   raw |-> raw, rawErr |-> rawErr, ret |-> ret, err |-> err,
   notified |-> notified, errorBefore |-> error, sizeBefore |-> Len(cache),
   cleared |-> FALSE]

Other(op, args) == Step(op, args, FALSE, "none", NoValue, NoError, NoValue, NoError, <<>>)

\* A call suspended at `await request(...args)`; cleared records that clear,
\* or clearOne of its key, was called since it suspended.
InFlight(args, ignoreCache) ==
  [args |-> args, ignoreCache |-> ignoreCache, cleared |-> FALSE]

\* The keys of the suspended calls q.
KeysOf(q) == {getCacheKey(q[n].args) : n \in 1..Len(q)}

\* The suspended calls after clear (keys = every key) or clearOne (keys =
\* its key): the calls themselves are untouched, no code reaches them.
Overtaken(q, keys) ==
  [n \in 1..Len(q) |-> IF getCacheKey(q[n].args) \in keys
                       THEN [q[n] EXCEPT !.cleared = TRUE] ELSE q[n]]

\* The refs after triggerRef changed: the watcher of every useAsyncData
\* created by getRef is due to run its handler again.
Notified(rs) == [i \in 1..Len(rs) |-> [rs[i] EXCEPT !.dirty = TRUE]]

\* ------------------------------------------------------------------ Init
Init ==
  /\ options \in OptionSets
  /\ isLoading = FALSE
  /\ error = NoError
  /\ triggerRef = 0
  /\ cache = <<>>
  /\ now = 0
  /\ pending = <<>>
  /\ reqCount = 0
  /\ newestInFlight = FALSE
  /\ last = [Other("init", <<>>) EXCEPT !.errorBefore = NoError, !.sizeBefore = 0]
  /\ writes = 0
  /\ refs = <<>>

\* --------------------------------------------------------------- actions
\* Mutant: the error ref is reset before the cache is consulted.
ExecuteHit_resetsError(ignoreCache, args, cached) ==
  /\ last' = Step("execute", args, ignoreCache, "hit", NoValue, NoError, cached, NoError, <<>>)
  /\ error' = NoError
  /\ UNCHANGED <<isLoading, pending, reqCount, newestInFlight>>

\* execute returns from the cache: `if (cached) return cached`.
ExecuteHit(ignoreCache, args, cached) ==
  /\ last' = Step("execute", args, ignoreCache, "hit", NoValue, NoError, cached, NoError, <<>>)
  /\ UNCHANGED <<isLoading, error, pending, reqCount, newestInFlight>>

\* Mutant: the error ref is not reset when the request cycle is entered.
ExecuteMiss_keepsError(ignoreCache, args) ==
  /\ reqCount < MaxRequests
  /\ isLoading' = TRUE
  /\ error' = error
  /\ reqCount' = reqCount + 1
  /\ pending' = Append(pending, InFlight(args, ignoreCache))
  /\ newestInFlight' = TRUE
  /\ last' = Step("execute", args, ignoreCache, "miss", NoValue, NoError, NoValue, NoError, <<>>)

\* execute enters the request cycle and suspends at `await request(...args)`.
ExecuteMiss(ignoreCache, args) ==
  /\ reqCount < MaxRequests
  /\ isLoading' = TRUE
  /\ error' = NoError
  /\ reqCount' = reqCount + 1
  /\ pending' = Append(pending, InFlight(args, ignoreCache))
  /\ newestInFlight' = TRUE
  /\ last' = Step("execute", args, ignoreCache, "miss", NoValue, NoError, NoValue, NoError, <<>>)

\* Mutant: the finally hook is triggered before the error hook, with isLoading still set.
FailureEvents_finallyFirst(adapted) ==
  << Event("finally", NoValue, NoError, isLoading, triggerRef, cache),
     Event("error", NoValue, adapted, isLoading, triggerRef, cache) >>

\* The hook notifications of the failure path, in order.
FailureEvents(adapted) ==
  << Event("error", NoValue, adapted, isLoading, triggerRef, cache),
     Event("finally", NoValue, NoError, FALSE, triggerRef, cache) >>

\* Mutant: the key is derived inside the try block, so its failure takes
\* the catch and finally blocks.
ExecuteThrows_caught(ignoreCache, args) ==
  LET adapted == adaptError(SerializationError, options.errorAdapter)
  IN /\ isLoading' = FALSE
     /\ error' = adapted
     /\ last' = Step("execute", args, ignoreCache, "threw", NoValue, SerializationError,
                     NoValue, adapted, FailureEvents(adapted))
     /\ UNCHANGED <<pending, reqCount, newestInFlight>>

\* getCacheKey throws at the first statement of execute: the async function
\* returns a promise rejected with that exception, nothing else has run.
ExecuteThrows(ignoreCache, args) ==
  /\ last' = Step("execute", args, ignoreCache, "threw", NoValue, SerializationError,
                  NoValue, SerializationError, <<>>)
  /\ UNCHANGED <<isLoading, error, pending, reqCount, newestInFlight>>

\* Mutant: a call whose key is already being fetched joins that request.
ExecuteCall_coalesce(ignoreCache, args) ==
  LET cacheKey == getCacheKey(args)
      cached == IF ignoreCache THEN Null
                ELSE getCachedData(cache, cacheKey, options.cacheTime, now)
      inFlight == \E n \in 1..Len(pending) : getCacheKey(pending[n].args) = cacheKey
  IN /\ IF getCacheKeyThrows(args)
        THEN ExecuteThrows(ignoreCache, args)
        ELSE IF Truthy(cached)
        THEN ExecuteHit(ignoreCache, args, cached)
        ELSE IF inFlight
             THEN /\ isLoading' = TRUE
                  /\ error' = NoError
                  /\ last' = Step("execute", args, ignoreCache, "miss", NoValue,
                                  NoError, NoValue, NoError, <<>>)
                  /\ UNCHANGED <<pending, reqCount, newestInFlight>>
             ELSE ExecuteMiss(ignoreCache, args)
     /\ UNCHANGED <<opts, triggerRef, cache, now, writes>>

\* execute(ignoreCache, ...args) up to its return from the cache or its await.
ExecuteCall(ignoreCache, args) ==
  LET cacheKey == getCacheKey(args)
      cached == IF ignoreCache THEN Null
                ELSE getCachedData(cache, cacheKey, options.cacheTime, now)
  IN /\ IF getCacheKeyThrows(args)
        THEN ExecuteThrows(ignoreCache, args)
        ELSE IF Truthy(cached)
             THEN ExecuteHit(ignoreCache, args, cached)
             ELSE ExecuteMiss(ignoreCache, args)
     /\ UNCHANGED <<opts, triggerRef, cache, now, writes>>

\* The returned execute: (...args) => execute(false, ...args).
execute(args) == ExecuteCall(FALSE, args) /\ UNCHANGED refs

\* The returned load: (...args) => execute(true, ...args).
load(args) == ExecuteCall(TRUE, args) /\ UNCHANGED refs

\* pending without its k-th call.
Remove(q, k) == [n \in 1..(Len(q) - 1) |-> IF n < k THEN q[n] ELSE q[n + 1]]

\* The hook notifications of the success path, in order, each with the
\* state at the moment of the notification.
SuccessEvents(adaptedData, cache1) ==
  << Event("success", adaptedData, NoError, isLoading, triggerRef, cache1),
     Event("finally", NoValue, NoError, FALSE, triggerRef + 1, cache1) >>

\* Mutant: clear and clearOne cancel the calls in flight, whose results are
\* then dropped (only the finally block runs).
RequestResolves_cancelled(k, r) ==
  LET call == pending[k]
      cacheKey == getCacheKey(call.args)
      adaptedData == adaptResponse(r, options.adapter)
      cache1 == IF call.cleared THEN cache
                ELSE saveToCache(cache, cacheKey, adaptedData, options.cacheTime, now)
  IN /\ cache' = cache1
     /\ triggerRef' = (IF call.cleared THEN triggerRef ELSE triggerRef + 1)
     /\ writes' = (IF call.cleared THEN writes ELSE writes + 1)
     /\ isLoading' = FALSE
     /\ pending' = Remove(pending, k)
     /\ newestInFlight' = (newestInFlight /\ k # Len(pending))
     /\ last' = [Step("resume", call.args, call.ignoreCache, "resolved", r, NoError,
                      adaptedData, NoError,
                      IF call.cleared
                      THEN << Event("finally", NoValue, NoError, FALSE, triggerRef, cache) >>
                      ELSE SuccessEvents(adaptedData, cache1))
                   EXCEPT !.cleared = call.cleared]
     /\ refs' = Notified(refs)
     /\ UNCHANGED <<opts, error, now, reqCount>>

\* The request of the k-th suspended call resolves with r: the rest of the
\* try block, then the finally block.
RequestResolves(k, r) ==
  LET call == pending[k]
      cacheKey == getCacheKey(call.args)
      adaptedData == adaptResponse(r, options.adapter)
      cache1 == saveToCache(cache, cacheKey, adaptedData, options.cacheTime, now)
  IN /\ cache' = cache1
     /\ writes' = writes + 1
     /\ triggerRef' = triggerRef + 1
     /\ isLoading' = FALSE
     /\ pending' = Remove(pending, k)
     /\ newestInFlight' = (newestInFlight /\ k # Len(pending))
     /\ last' = [Step("resume", call.args, call.ignoreCache, "resolved", r, NoError,
                      adaptedData, NoError, SuccessEvents(adaptedData, cache1))
                   EXCEPT !.cleared = call.cleared]
     /\ refs' = Notified(refs)
     /\ UNCHANGED <<opts, error, now, reqCount>>

\* Mutant: the failure path leaves isLoading set.
RequestRejects_keepsLoading(k, e) ==
  LET call == pending[k]
      adapted == adaptError(e, options.errorAdapter)
  IN /\ error' = adapted
     /\ isLoading' = isLoading
     /\ pending' = Remove(pending, k)
     /\ newestInFlight' = (newestInFlight /\ k # Len(pending))
     /\ last' = [Step("resume", call.args, call.ignoreCache, "rejected", NoValue, e,
                      NoValue, adapted, FailureEvents(adapted))
                   EXCEPT !.cleared = call.cleared]
     /\ UNCHANGED <<opts, triggerRef, cache, now, reqCount, writes, refs>>

\* The request of the k-th suspended call rejects with e: the catch block,
\* then the finally block.
RequestRejects(k, e) ==
  LET call == pending[k]
      adapted == adaptError(e, options.errorAdapter)
  IN /\ error' = adapted
     /\ isLoading' = FALSE
     /\ pending' = Remove(pending, k)
     /\ newestInFlight' = (newestInFlight /\ k # Len(pending))
     /\ last' = [Step("resume", call.args, call.ignoreCache, "rejected", NoValue, e,
                      NoValue, adapted, FailureEvents(adapted))
                   EXCEPT !.cleared = call.cleared]
     /\ UNCHANGED <<opts, triggerRef, cache, now, reqCount, writes, refs>>

\* Mutant: clear also resets the revision counter.
clear_resetsRevision ==
  /\ cache' = MapClear(cache)
  /\ triggerRef' = 0
  /\ pending' = Overtaken(pending, KeysOf(pending))
  /\ last' = Other("clear", <<>>)
  /\ UNCHANGED <<opts, isLoading, error, now, reqCount, newestInFlight, writes, refs>>

\* clear: () => cache.value.clear()
clear ==
  /\ cache' = MapClear(cache)
  /\ pending' = Overtaken(pending, KeysOf(pending))
  /\ last' = Other("clear", <<>>)
  /\ UNCHANGED <<opts, isLoading, error, triggerRef, now, reqCount, newestInFlight,
                 writes, refs>>

\* clearOne: (...args) => cache.value.delete(getCacheKey(args))
clearOne(args) ==
  /\ cache' = MapDelete(cache, getCacheKey(args))
  /\ pending' = Overtaken(pending, {getCacheKey(args)})
  /\ last' = Other("clearOne", args)
  /\ UNCHANGED <<opts, isLoading, error, triggerRef, now, reqCount, newestInFlight,
                 writes, refs>>

\* The clock is read only under a truthy options.cacheTime, and only the
\* time elapsed since an entry was stamped is ever used: time is counted
\* from the moment the table holds an entry.
ClockObserved ==
  /\ options.cacheTime # NoTime
  /\ options.cacheTime # 0
  /\ cache # <<>>

\* Time passes: Date.now() advances (modelled only where the clock is read).
Tick ==
  /\ ClockObserved
  /\ now < MaxTicks * TickMs
  /\ now' = now + TickMs
  /\ last' = Other("tick", <<>>)
  /\ UNCHANGED <<opts, isLoading, error, triggerRef, cache, pending, reqCount,
                 newestInFlight, writes, refs>>

\* getRef(defaultValue, ...args): useAsyncData runs the handler
\* `() => execute(false, ...args)` once at creation and watches triggerRef.
getRef(args) ==
  /\ Len(refs) < MaxRefs
  /\ ExecuteCall(FALSE, args)
  /\ refs' = Append(refs, [args |-> args, dirty |-> FALSE])

\* The watcher of the i-th ref runs after triggerRef changed: the handler
\* `() => execute(false, ...args)` is called again.
RefRun(i) ==
  /\ refs[i].dirty
  /\ ExecuteCall(FALSE, refs[i].args)
  /\ refs' = [refs EXCEPT ![i].dirty = FALSE]

Next ==
  \/ \E args \in ArgLists \cup Unserializable : execute(args)
  \/ \E args \in ArgLists \cup Unserializable : load(args)
  \/ \E k \in 1..Len(pending), r \in Results : RequestResolves(k, r)
  \/ \E k \in 1..Len(pending), e \in Errors : RequestRejects(k, e)
  \/ clear
  \/ \E args \in ArgLists : clearOne(args)
  \/ Tick

Spec == Init /\ [][Next]_vars

\* A ref created with getRef, a request that always succeeds, and no calls
\* from outside.
NextRef ==
  \/ \E args \in ArgLists : getRef(args)
  \/ \E i \in 1..Len(refs) : RefRun(i)
  \/ \E k \in 1..Len(pending), r \in Results : RequestResolves(k, r)

SpecRef == Init /\ [][NextRef]_vars

\* ---------------------------------------------------------- step shapes
\* The step is an execute (bypass = FALSE) or load (bypass = TRUE) call with args.
CallStep(bypass, args) ==
  /\ last'.op = "execute"
  /\ last'.ignoreCache = bypass
  /\ last'.args = args

\* The step is an execute call served from the cache.
HitStep == last'.op = "execute" /\ last'.outcome = "hit"

\* The step is an execute or load call that invoked the request.
MissStep == last'.op = "execute" /\ last'.outcome = "miss"

\* The step is the resolution / rejection of a suspended call.
ResolveStep == last'.op = "resume" /\ last'.outcome = "resolved"
RejectStep == last'.op = "resume" /\ last'.outcome = "rejected"

\* The data a value carries, apart from a fetchedAt stamp.
DataOf(x) == [x EXCEPT !.fetchedAt = NoDate]

\* The number of notifications of one hook in a sequence of notifications.
Count(notified, hook) == Cardinality({n \in 1..Len(notified) : notified[n].hook = hook})

\* ----------------------------------------------------------------- claims

\* C1: two successive execute(false, a) calls, with no clear, clearOne or
\* expiry in between, invoke the request at most once in total, and the
\* second call returns the adapted value the first call returned.
C1_CacheHitIdempotence ==
  [][\A a \in ArgLists :
       ( /\ last.op \in {"execute", "resume"}
         /\ last.outcome \in {"hit", "resolved"}
         /\ ~last.ignoreCache
         /\ last.args = a
         /\ CallStep(FALSE, a) )
       => ( /\ last'.outcome = "hit"
            /\ reqCount' = reqCount
            /\ DataOf(last'.ret) = DataOf(last.ret) )]_vars

\* C2: a call whose request fails sets the error ref to the adapted error,
\* notifies onError once with it and onFinally once, never onSuccess,
\* rejects with the same value, and leaves cache and triggerRef as they were.
C2_ErrorIsolation ==
  [][RejectStep =>
       /\ error' = (IF options.errorAdapter THEN ErrorAdapter(last'.rawErr)
                                            ELSE last'.rawErr)
       /\ last'.err = error'
       /\ Count(last'.notified, "error") = 1
       /\ Count(last'.notified, "finally") = 1
       /\ Count(last'.notified, "success") = 0
       /\ \A n \in 1..Len(last'.notified) :
            last'.notified[n].hook = "error" => last'.notified[n].err = error'
       /\ cache' = cache
       /\ triggerRef' = triggerRef]_vars

\* A failed call left the existing entry for its key in place.
C2_Witness ==
  /\ last.outcome = "rejected"
  /\ error = last.err
  /\ error # NoError
  /\ MapHas(cache, getCacheKey(last.args))

\* C3: with cacheTime T an entry written at t0 is served by execute(false, a)
\* at every time before t0 + T and is a miss at t0 + T or later; without
\* cacheTime the entry never expires.  (A write is never later than the
\* call, so with T = 0 every call is at t0 + T or later.  Stated for the
\* entries whose value is truthy: a falsy value is never served, see C1.)
C3_TTLExpiry ==
  [][\A a \in ArgLists :
       ( /\ CallStep(FALSE, a)
         /\ MapHas(cache, getCacheKey(a))
         /\ Truthy(MapGet(cache, getCacheKey(a))) )
       => LET entry == MapGet(cache, getCacheKey(a))
              T == options.cacheTime
              expired == /\ T # NoTime
                         /\ \/ T = 0
                            \/ /\ entry.fetchedAt # NoDate
                               /\ now >= entry.fetchedAt + T * MsPerSecond
          IN last'.outcome = (IF expired THEN "miss" ELSE "hit")]_vars

\* C4: every load(a) invokes the request exactly once whatever the cache
\* holds, and on success the entry for a holds the newly adapted result.
C4_BypassAlwaysReinvokes ==
  [][/\ \A a \in ArgLists :
          CallStep(TRUE, a) => (last'.outcome = "miss" /\ reqCount' = reqCount + 1)
     /\ (ResolveStep /\ last'.ignoreCache)
          => /\ MapHas(cache', getCacheKey(last'.args))
             /\ DataOf(MapGet(cache', getCacheKey(last'.args))) = last'.ret
             /\ reqCount' = reqCount]_vars

\* C5: a cache-hit execute(false, a) does not invoke the request, leaves
\* isLoading, error, triggerRef and cache unchanged and notifies no hook.
C5_CacheHitChangesNothing ==
  [][HitStep =>
       /\ UNCHANGED <<isLoading, error, triggerRef, cache, pending, reqCount>>
       /\ last'.notified = <<>>]_vars

\* A call was served from the cache while an earlier error was still set.
C5_Witness ==
  /\ last.outcome = "hit"
  /\ error # NoError
  /\ Truthy(last.ret)

\* C6: a call that reached the request notifies onFinally exactly once, when
\* it settles, on both paths, after its own onSuccess / onError notification
\* and after isLoading was set to false; no other step notifies a hook.
C6_FinallyOnceAndLast ==
  [][/\ (ResolveStep \/ RejectStep)
          => /\ Len(pending') = Len(pending) - 1
             /\ Len(last'.notified) = 2
             /\ last'.notified[1].hook = (IF ResolveStep THEN "success" ELSE "error")
             /\ last'.notified[2].hook = "finally"
             /\ last'.notified[2].isLoading = FALSE
     /\ ~(ResolveStep \/ RejectStep)
          => /\ last'.notified = <<>>
             /\ Len(pending') >= Len(pending)]_vars

\* A call settled on the failure path, and notified, while another call was in flight.
C6_Witness ==
  /\ last.outcome = "rejected"
  /\ Len(last.notified) = 2
  /\ last.notified[2].hook = "finally"
  /\ Len(pending) >= 1

\* C7: isLoading is true iff the call that reached the request last has
\* not yet resolved or rejected.
C7_LoadingTracksNewestCall == isLoading <=> newestInFlight

\* C8 (as stated): immediately after any execute or load call begins, the
\* error ref is null.
C8_ErrorClearedByEveryCall ==
  [][(last'.op = "execute" /\ last'.args \in ArgLists) => error' = NoError]_vars

\* C8 (amended): the error ref is null immediately after every execute or
\* load call that reaches the request; a call served from the cache leaves
\* the error ref as it was.
C8_ErrorClearedOnRequest ==
  [][/\ MissStep => error' = NoError
     /\ HitStep => error' = error]_vars

\* A call entered the request cycle and cleared the error an earlier call left.
C8_Witness ==
  /\ last.outcome = "miss"
  /\ last.errorBefore # NoError
  /\ error = NoError

\* C9: for argument lists a # b, execute(false, b) is not served from the
\* entry of a: when the only entry of the cache is the one just written for
\* a, execute(false, b) invokes the request.
C9_ArgumentSensitivity ==
  [][\A b \in ArgLists :
       ( /\ last.outcome = "resolved"
         /\ last.sizeBefore = 0
         /\ last.args # b
         /\ CallStep(FALSE, b) )
       => (last'.outcome = "miss" /\ reqCount' = reqCount + 1)]_vars

\* C10: clearOne(a) removes exactly the entry of a's key and leaves the
\* other entries, isLoading, error and triggerRef unchanged; clear() removes
\* every entry; right after either, execute(false, a) invokes the request.
C10_ClearFrame ==
  [][/\ last'.op = "clearOne"
          => /\ cache' = SelectSeq(cache, LAMBDA e : e.key # getCacheKey(last'.args))
             /\ UNCHANGED <<isLoading, error, triggerRef>>
     /\ last'.op = "clear" => cache' = <<>>
     /\ \A a \in ArgLists :
          ( /\ \/ last.op = "clear"
               \/ last.op = "clearOne" /\ getCacheKey(last.args) = getCacheKey(a)
            /\ CallStep(FALSE, a) )
          => (last'.outcome = "miss" /\ reqCount' = reqCount + 1)]_vars

\* clearOne removed one of two entries and kept the other.
C10_Witness ==
  /\ last.op = "clearOne"
  /\ last.sizeBefore = 2
  /\ Len(cache) = 1
  /\ ~MapHas(cache, getCacheKey(last.args))

\* C11: getGroupByArg(index, arg) yields exactly the data of the entries
\* whose argument list has a value equal to arg at position index, with
\* index omitted the data of every entry, and nothing for an empty table.
\* Stated for the table that holds one entry, the one just written for
\* last.args.
C11_GroupingCorrectness ==
  /\ cache = <<>> =>
       \A arg \in ArgValues : getGroupByArg(cache, NoIndex, arg) = <<>>
                              /\ getGroupByArg(cache, 0, arg) = <<>>
  /\ (last.outcome = "resolved" /\ last.sizeBefore = 0) =>
       \A arg \in ArgValues :
         /\ getGroupByArg(cache, NoIndex, arg) = <<cache[1].value>>
         /\ getGroupByArg(cache, 0, arg) =
              (IF ElementAt(last.args, 0) = arg THEN <<cache[1].value>> ELSE <<>>)

\* C12: concurrent calls for the same key are not coalesced: an execute or
\* load call that is not served from the cache issues a request invocation
\* of its own, whatever calls are in flight, and an execute call is served
\* without a request only if the table holds a valid entry for its key at
\* the moment the call consults it.
C12_NoCoalescing ==
  [][\A a \in ArgLists, b \in BOOLEAN :
       CallStep(b, a) =>
         /\ MissStep => /\ reqCount' = reqCount + 1
                        /\ pending' = Append(pending, InFlight(a, b))
         /\ HitStep => /\ ~b
                       /\ MapHas(cache, getCacheKey(a))
                       /\ isCacheValid(MapGet(cache, getCacheKey(a)),
                                       options.cacheTime, now)
                       /\ reqCount' = reqCount
                       /\ pending' = pending]_vars

\* Two execute calls for one key are in flight, each with its own request.
C12_Witness ==
  /\ last.op = "execute"
  /\ last.outcome = "miss"
  /\ ~last.ignoreCache
  /\ Len(pending) = 2
  /\ ~pending[1].ignoreCache
  /\ getCacheKey(pending[1].args) = getCacheKey(pending[2].args)
  /\ pending[2].args = last.args
  /\ reqCount = 2

\* C13: clear and clearOne do not affect an execution in flight: the call
\* stays suspended, and when its request resolves it writes its entry,
\* increments triggerRef and notifies onSuccess, although the table was
\* cleared in between.
C13_ClearDoesNotCancel ==
  [][/\ last'.op \in {"clear", "clearOne"} =>
          /\ Len(pending') = Len(pending)
          /\ \A n \in 1..Len(pending) :
               /\ pending'[n].args = pending[n].args
               /\ pending'[n].ignoreCache = pending[n].ignoreCache
          /\ isLoading' = isLoading
     /\ (ResolveStep /\ last'.cleared) =>
          /\ MapHas(cache', getCacheKey(last'.args))
          /\ MapGet(cache', getCacheKey(last'.args)) =
               CachedValue(last'.ret, options.cacheTime, now)
          /\ triggerRef' = triggerRef + 1
          /\ Count(last'.notified, "success") = 1
          /\ Count(last'.notified, "finally") = 1]_vars

\* A call resolved after clear or clearOne of its key had run while it was
\* suspended, found the table empty, and its entry is in the table.
C13_Witness ==
  /\ last.op = "resume"
  /\ last.outcome = "resolved"
  /\ last.cleared
  /\ last.sizeBefore = 0
  /\ Len(cache) = 1
  /\ MapHas(cache, getCacheKey(last.args))

\* C14: triggerRef never decreases; a step increments it by exactly one if
\* it is the successful completion of a request (which writes the cache)
\* and leaves it unchanged otherwise (cache hits, failures, clear,
\* clearOne); its value is the number of successful cache writes so far.
C14_RevisionCountsWrites ==
  [][/\ triggerRef' >= triggerRef
     /\ triggerRef' = triggerRef + (IF ResolveStep THEN 1 ELSE 0)
     /\ (HitStep \/ RejectStep \/ last'.op \in {"clear", "clearOne"}) =>
          triggerRef' = triggerRef
     /\ triggerRef' = writes']_vars

\* Two successful writes, the table cleared in between: the revision is 2.
C14_Witness ==
  /\ triggerRef = 2
  /\ writes = 2
  /\ last.op \in {"clear", "clearOne"}
  /\ cache = <<>>

\* The step is an execute or load call that failed deriving its key.
ThrowStep == last'.op = "execute" /\ last'.outcome = "threw"

\* C15: when the key cannot be derived from the arguments, execute / load
\* fails with the serialisation failure itself (errorAdapter not applied)
\* without entering the request cycle: the request is not invoked,
\* isLoading and the error ref keep their values, the cache is not written
\* and neither onError nor onFinally is notified.
C15_KeyFailureOutsideCycle ==
  [][/\ \A a \in Unserializable, b \in BOOLEAN : CallStep(b, a) => ThrowStep
     /\ ThrowStep =>
          /\ last'.err = SerializationError
          /\ reqCount' = reqCount
          /\ pending' = pending
          /\ isLoading' = isLoading
          /\ error' = error
          /\ cache' = cache
          /\ triggerRef' = triggerRef
          /\ last'.notified = <<>>]_vars

\* A call failed deriving its key while another call was in flight and an
\* error adapter is configured: isLoading is still set.
C15_Witness ==
  /\ last.op = "execute"
  /\ last.outcome = "threw"
  /\ last.err = SerializationError
  /\ options.errorAdapter
  /\ isLoading
  /\ pending # <<>>

\* C16: on the success path the cache is written, then triggerRef is
\* incremented, then onSuccess is notified: a subscriber of onSuccess
\* observes the written entry and the incremented triggerRef.
C16_SuccessOrder ==
  [][ResolveStep =>
       \A n \in 1..Len(last'.notified) :
         last'.notified[n].hook = "success" =>
           /\ MapHas(last'.notified[n].cache, getCacheKey(last'.args))
           /\ last'.notified[n].triggerRef = triggerRef + 1]_vars

\* C17: whenever no execute / load call is in flight, isLoading is false.
C17_IdleNotLoading == pending = <<>> => ~isLoading

\* Two requests were started, one of them overtaken by clear or clearOne,
\* the last one failed, and nothing is in flight any more.
C17_Witness ==
  /\ pending = <<>>
  /\ ~isLoading
  /\ reqCount = 2
  /\ last.op = "resume"
  /\ last.outcome = "rejected"
  /\ last.cleared

\* C18: a ref created by getRef(default, a) settles: the re-run of
\* execute(false, a) caused by the triggerRef increment of a successful
\* request for a is a cache hit, which neither invokes the request nor
\* increments triggerRef again.
C18_RefSettles ==
  [][\A i \in 1..Len(refs) :
       ( /\ last.op = "resume"
         /\ last.outcome = "resolved"
         /\ last.args = refs[i].args
         /\ refs[i].dirty
         /\ ~refs'[i].dirty )
       => ( /\ last'.outcome = "hit"
            /\ reqCount' = reqCount
            /\ pending' = pending
            /\ triggerRef' = triggerRef )]_vars

\* The number of entries the table m holds for key.
EntriesFor(m, key) == Cardinality({i \in 1..Len(m) : m[i].key = key})

\* C19: the table holds at most one entry per key at every moment, and when
\* two executions for one key that were in flight together have both
\* resolved, the entry holds the result of the one that resolved last,
\* whichever was started last.
C19_LastResolvedWins ==
  [][/\ \A i \in 1..Len(cache') : EntriesFor(cache', cache'[i].key) = 1
     /\ ( /\ last.op = "resume"
          /\ last.outcome = "resolved"
          /\ ResolveStep
          /\ getCacheKey(last.args) = getCacheKey(last'.args)
          /\ \A n \in 1..Len(pending') :
               getCacheKey(pending'[n].args) # getCacheKey(last'.args) )
        => /\ EntriesFor(cache', getCacheKey(last'.args)) = 1
           /\ DataOf(MapGet(cache', getCacheKey(last'.args))) = last'.ret]_vars

\* The entry e of the table is past its time to live.
Expired(e) == ~isCacheValid(e.value, options.cacheTime, now)

\* The values in a sequence of values.
Values(group) == {group[i] : i \in 1..Len(group)}

\* C20: expiry is lazy and only affects execute: an expired entry stays in
\* the table until a successful execution for its key overwrites it or
\* clear / clearOne removes it, getGroupByArg still returns it, and
\* execute(false, a) for its key treats it as a miss.
C20_LazyExpiry ==
  [][\A i \in 1..Len(cache) :
       Expired(cache[i]) =>
         /\ cache[i].value \in Values(getGroupByArg(cache, NoIndex, Undefined))
         /\ \A arg \in ArgValues :
              JsonText(ElementAt(JsonParse(cache[i].key), 0)) = JsonText(arg)
                => cache[i].value \in Values(getGroupByArg(cache, 0, arg))
         /\ \/ \E j \in 1..Len(cache') : cache'[j] = cache[i]
            \/ ResolveStep /\ getCacheKey(last'.args) = cache[i].key
            \/ last'.op = "clear"
            \/ last'.op = "clearOne" /\ getCacheKey(last'.args) = cache[i].key
         /\ \A a \in ArgLists :
              (CallStep(FALSE, a) /\ getCacheKey(a) = cache[i].key)
                => /\ MissStep
                   /\ reqCount' = reqCount + 1
                   /\ cache' = cache
                   /\ cache[i].value \in Values(getGroupByArg(cache', NoIndex, Undefined))]_vars

\* execute(false, a) has just missed on an expired entry, which is still in
\* the table and in the group of its argument.
C20_Witness ==
  /\ last.op = "execute"
  /\ last.outcome = "miss"
  /\ ~last.ignoreCache
  /\ last.args = <<Num(1)>>
  /\ MapHas(cache, getCacheKey(last.args))
  /\ ~isCacheValid(MapGet(cache, getCacheKey(last.args)), options.cacheTime, now)
  /\ getGroupByArg(cache, 0, Num(1)) = <<MapGet(cache, getCacheKey(last.args))>>

====
